---------------------------- MODULE Spec2Model ----------------------------
(***************************************************************************)
(* Model of the ZLAC8015D host-side driver (zlac8015d/ZLAC8015D.py,        *)
(* class Controller): the register protocol, the command clamps, the       *)
(* split-word codec, the fault classification and the read-retry loop.     *)
(*                                                                         *)
(* The register client (pymodbus) is the environment: every call to        *)
(* read_holding_registers / write_register / write_registers is recorded,  *)
(* and its answer is chosen nondeterministically.                          *)
(*                                                                         *)
(* Numbers.  Python floats produced by `/` are kept as exact rationals     *)
(* [num, den]; int() truncates toward zero.  np.int16 / np.int32 are the   *)
(* wrapping two's-complement casts of NumPy 1.x, the NumPy generation of   *)
(* the pymodbus 3.0-3.6 API this file is written against (method="rtu",    *)
(* slave=...).  TLC integers are 32-bit, so an unsigned 32-bit             *)
(* intermediate is never formed: it is kept as its (hi, lo) word pair.     *)
(***************************************************************************)
EXTENDS Integers, Sequences, FiniteSets, TLC

VARIABLES
    pc,        \* position of the caller: idle | call | copy | returned | done | raised
    op,        \* the Controller method in progress / last called, with its arguments
    alive,     \* whether the device answers at all during this operation
    result,    \* modbus_fail_read_handler / get_fault_code: last client response
    reg,       \* modbus_fail_read_handler: the reg list
    read_success, \* modbus_fail_read_handler: the loop flag
    rd,        \* the read request issued (address, count)
    calls,     \* number of read_holding_registers calls of this operation
    glitches,  \* number of those calls answered without a register payload
    writes,    \* the write calls issued to the register client by this operation
    ret        \* what the method returned (or raised)

vars == <<pc, op, alive, result, reg, read_success, rd, calls, glitches, writes, ret>>

---------------------------------------------------------------------------
\* Bounds of the model

\* a transient device answers at most MaxGlitch reads without a payload
MaxGlitch == 2
\* width of the windows of inputs taken around each clamp bound
Margin == 3
\* set_mode is called with every MODE in -MaxModeArg..MaxModeArg
MaxModeArg == 5
\* set_relative_angle is called with every angle in -MaxAngle..MaxAngle
MaxAngle == 1500

---------------------------------------------------------------------------
\* Register map (Controller.__init__)

OPR_MODE == 8205            \* 0x200D
L_ACL_TIME == 8320          \* 0x2080
L_DCL_TIME == 8322          \* 0x2082
L_CMD_RPM == 8328           \* 0x2088
L_FB_RPM == 8363            \* 0x20AB
L_CMD_REL_POS_HI == 8330    \* 0x208A
L_FB_POS_HI == 8359         \* 0x20A7
L_FAULT == 8357             \* 0x20A5

OVER_VOLT == 1
UNDER_VOLT == 2
OVER_CURR == 4
OVER_LOAD == 8
CURR_OUT_TOL == 16
ENCOD_OUT_TOL == 32
MOTOR_BAD == 64
REF_VOLT_ERROR == 128
EEPROM_ERROR == 256
WALL_ERROR == 512
HIGH_TEMP == 1024

FAULT_LIST ==
    { OVER_VOLT, UNDER_VOLT, OVER_CURR, OVER_LOAD, CURR_OUT_TOL, ENCOD_OUT_TOL,
      MOTOR_BAD, REF_VOLT_ERROR, EEPROM_ERROR, WALL_ERROR, HIGH_TEMP }

\* counts per revolution
cpr == 16384

\* Python's None in the reg list; a register word is never negative
None == -1

---------------------------------------------------------------------------
\* The register client

\* a response without a `registers` attribute (ModbusIOException, None)
Absent == [has_registers |-> FALSE, registers |-> <<>>]

Registers(ws) == [has_registers |-> TRUE, registers |-> ws]

\* 16-bit words a device register is sampled from
Words == {0, 1, 1000, 32767, 32768, 65535}

\* fault words: every code of the fault set, no fault, several bits, unknown bits
FaultWords == FAULT_LIST \cup {0, 3, 1025, 1536, 2048, 32768, 65535}

WordSeqs(S, n) == [1..n -> S]

\* every answer of at most n words
PayloadsUpTo(S, n) == UNION { WordSeqs(S, k) : k \in 0..n }

\* what the client may answer to a read of WORD registers
ReadResponses(WORD) ==
    IF alive
    THEN { Registers(ws) : ws \in PayloadsUpTo(Words, WORD) }
         \cup (IF glitches < MaxGlitch THEN {Absent} ELSE {})
    ELSE {Absent}

\* the result object of a write call
WriteResults == {"ok", "error"}

\* one entry of the log of write calls: the call and the result object the
\* client answered it with
write_register(addr, value, res) ==
    [fn |-> "write_register", addr |-> addr, values |-> <<value>>, res |-> res]

write_registers(addr, values, res) ==
    [fn |-> "write_registers", addr |-> addr, values |-> values, res |-> res]

---------------------------------------------------------------------------
\* Pure helpers

\* int(): truncation toward zero of the rational q
int(q) ==
    IF q.num >= 0 THEN q.num \div q.den ELSE -((-q.num) \div q.den)

\* a clip that forgets the lower bound
clip_upper_only(val, lo, hi) == IF val > hi THEN hi ELSE val

\* np.clip(val, lo, hi)
clip(val, lo, hi) == IF val < lo THEN lo ELSE IF val > hi THEN hi ELSE val

\* a clamp that forgets the floor at 0
clamp_ms_no_floor(ms) == IF ms > 32767 THEN 32767 ELSE ms

\* the if/elif clamp of set_accel_time and set_decel_time
clamp_ms(ms) == IF ms > 32767 THEN 32767 ELSE IF ms < 0 THEN 0 ELSE ms

to_int16(val) == val % 65536

\* (val - in_min) * (out_max - out_min) / (in_max - in_min) + out_min
map(val, in_min, in_max, out_min, out_max) ==
    [num |-> (val - in_min) * (out_max - out_min) + out_min * (in_max - in_min),
     den |-> in_max - in_min]

\* the split with the low word first
deg_to_32bitArray_lo_first(deg) ==
    LET dec == int(map(deg, -1440, 1440, -65536, 65536))
    IN  <<dec % 65536, (dec \div 65536) % 65536>>

deg_to_32bitArray(deg) ==
    LET dec == int(map(deg, -1440, 1440, -65536, 65536))
        HI_WORD == (dec \div 65536) % 65536
        LO_WORD == dec % 65536
    IN  <<HI_WORD, LO_WORD>>

\* np.int16(w)
np_int16(w) == IF w % 65536 >= 32768 THEN (w % 65536) - 65536 ELSE w % 65536

\* the reassembly with the words taken low word first
np_int32_words_lo_first(hi, lo) ==
    LET h == lo % 65536
        l == hi % 65536
    IN  IF h >= 32768 THEN (h - 65536) * 65536 + l ELSE h * 65536 + l

\* np.int32(((hi & 0xFFFF) << 16) | (lo & 0xFFFF))
np_int32_words(hi, lo) ==
    LET h == hi % 65536
        l == lo % 65536
    IN  IF h >= 32768 THEN (h - 65536) * 65536 + l ELSE h * 65536 + l

---------------------------------------------------------------------------
\* Inputs

Window(c) == (c - Margin)..(c + Margin)

ModeInputs == (-MaxModeArg)..MaxModeArg

TimeInputs == Window(0) \cup Window(32767) \cup {-5, 100, 40000}

RpmInputs ==
    Window(-3000) \cup Window(0) \cup Window(3000) \cup {-500, 500, -40000, 40000}

AngleSamples == {-2000, -1441, -1440, -1, 0, 1, 720, 1440, 1441, 2000}

AnglePairs ==
    (((-MaxAngle)..MaxAngle) \X AngleSamples)
    \cup (AngleSamples \X ((-MaxAngle)..MaxAngle))

\* the Controller keeps no state between calls (the device is the source of
\* truth), so every call starts from the same idle state
Ready == pc = "idle"

NoRet == [tag |-> "none"]

Init ==
    /\ pc = "idle"
    /\ op = [name |-> "none", a |-> 0, b |-> 0]
    /\ alive = TRUE
    /\ result = Absent
    /\ reg = <<>>
    /\ read_success = FALSE
    /\ rd = [addr |-> 0, count |-> 0]
    /\ calls = 0
    /\ glitches = 0
    /\ writes = <<>>
    /\ ret = NoRet

\* a method that only writes: the calls it issues and what it returns
WriteOnly(name, a, b, ws, r) ==
    /\ pc' = "done"
    /\ op' = [name |-> name, a |-> a, b |-> b]
    /\ alive' = TRUE
    /\ result' = Absent
    /\ reg' = <<>>
    /\ read_success' = FALSE
    /\ rd' = [addr |-> 0, count |-> 0]
    /\ calls' = 0
    /\ glitches' = 0
    /\ writes' = ws
    /\ ret' = r

\* a set_mode that writes whatever it is given
set_mode_unvalidated ==
    /\ Ready
    /\ \E MODE \in ModeInputs, wres \in WriteResults :
           WriteOnly("set_mode", MODE, 0,
                     <<write_register(OPR_MODE, MODE, wres)>>,
                     [tag |-> "client", val |-> wres])

set_mode ==
    /\ Ready
    /\ \E MODE \in ModeInputs, wres \in WriteResults :
           IF MODE \in {1, 2, 3}
           THEN WriteOnly("set_mode", MODE, 0,
                          <<write_register(OPR_MODE, MODE, wres)>>,
                          [tag |-> "client", val |-> wres])
           ELSE WriteOnly("set_mode", MODE, 0, <<>>, [tag |-> "const", val |-> 0])

set_accel_time ==
    /\ Ready
    /\ \E L_ms \in TimeInputs, R_ms \in TimeInputs, wres \in WriteResults :
           WriteOnly("set_accel_time", L_ms, R_ms,
                     <<write_registers(L_ACL_TIME, <<clamp_ms(L_ms), clamp_ms(R_ms)>>, wres)>>,
                     [tag |-> "client", val |-> wres])

set_decel_time ==
    /\ Ready
    /\ \E L_ms \in TimeInputs, R_ms \in TimeInputs, wres \in WriteResults :
           WriteOnly("set_decel_time", L_ms, R_ms,
                     <<write_registers(L_DCL_TIME, <<clamp_ms(L_ms), clamp_ms(R_ms)>>, wres)>>,
                     [tag |-> "client", val |-> wres])

set_rpm ==
    /\ Ready
    /\ \E L_rpm \in RpmInputs, R_rpm \in RpmInputs, wres \in WriteResults :
           LET left_bytes == to_int16(clip(L_rpm, -3000, 3000))
               right_bytes == to_int16(clip(R_rpm, -3000, 3000))
           IN  WriteOnly("set_rpm", L_rpm, R_rpm,
                         <<write_registers(L_CMD_RPM, <<left_bytes, right_bytes>>, wres)>>,
                         [tag |-> "client", val |-> wres])

set_relative_angle ==
    /\ Ready
    /\ \E ang \in AnglePairs, wres \in WriteResults :
           LET L_array == deg_to_32bitArray(ang[1])
               R_array == deg_to_32bitArray(ang[2])
               all_cmds_array == L_array \o R_array
           IN  WriteOnly("set_relative_angle", ang[1], ang[2],
                         <<write_registers(L_CMD_REL_POS_HI, all_cmds_array, wres)>>,
                         [tag |-> "client", val |-> wres])

\* registers[i] of a response: AttributeError without a payload, IndexError
\* beyond its length
Subscript(resp, i) ==
    IF ~resp.has_registers THEN "AttributeError"
    ELSE IF i > Len(resp.registers) THEN "IndexError"
    ELSE "ok"

\* "any nonzero code is a fault"
fault_flag_nonzero(code) == code # 0

\* L_fault_code in self.FAULT_LIST
fault_flag(code) == code \in FAULT_LIST

get_fault_code ==
    /\ Ready
    /\ \E fault_codes \in { Registers(ws) : ws \in PayloadsUpTo(FaultWords, 2) }
                          \cup {Absent} :
        /\ result' = fault_codes
        /\ IF Subscript(fault_codes, 1) # "ok"
           THEN /\ pc' = "raised"
                /\ ret' = [tag |-> "raise", exc |-> Subscript(fault_codes, 1)]
           ELSE IF Subscript(fault_codes, 2) # "ok"
           THEN /\ pc' = "raised"
                /\ ret' = [tag |-> "raise", exc |-> Subscript(fault_codes, 2)]
           ELSE LET L_fault_code == fault_codes.registers[1]
                    R_fault_code == fault_codes.registers[2]
                    L_fault_flag == fault_flag(L_fault_code)
                    R_fault_flag == fault_flag(R_fault_code)
                IN  /\ pc' = "done"
                    /\ ret' = [tag |-> "fault",
                               L |-> [flag |-> L_fault_flag, code |-> L_fault_code],
                               R |-> [flag |-> R_fault_flag, code |-> R_fault_code]]
    /\ op' = [name |-> "get_fault_code", a |-> 0, b |-> 0]
    /\ alive' = TRUE
    /\ reg' = <<>>
    /\ read_success' = FALSE
    /\ rd' = [addr |-> L_FAULT, count |-> 2]
    /\ calls' = 1
    /\ glitches' = IF result'.has_registers THEN 0 ELSE 1
    /\ writes' = <<>>

---------------------------------------------------------------------------
\* modbus_fail_read_handler and the feedback reads built on it

ReadOps == {"get_mode", "get_rpm", "get_wheels_travelled", "get_wheels_tick"}

\* entry of modbus_fail_read_handler(ADDR, WORD): read_success = False,
\* reg = [None] * WORD
Enter(name, ADDR, WORD) ==
    /\ pc' = "call"
    /\ op' = [name |-> name, a |-> 0, b |-> 0]
    /\ alive' \in BOOLEAN
    /\ result' = Absent
    /\ reg' = [i \in 1..WORD |-> None]
    /\ read_success' = FALSE
    /\ rd' = [addr |-> ADDR, count |-> WORD]
    /\ calls' = 0
    /\ glitches' = 0
    /\ writes' = <<>>
    /\ ret' = NoRet

get_mode ==
    /\ Ready
    /\ Enter("get_mode", OPR_MODE, 1)

get_rpm ==
    /\ Ready
    /\ Enter("get_rpm", L_FB_RPM, 2)

get_wheels_travelled ==
    /\ Ready
    /\ Enter("get_wheels_travelled", L_FB_POS_HI, 4)

get_wheels_tick ==
    /\ Ready
    /\ Enter("get_wheels_tick", L_FB_POS_HI, 4)

\* a history counter, kept finite: it stops counting one past MaxGlitch
Count(n) == IF n <= MaxGlitch THEN n + 1 ELSE n

\* result = self.client.read_holding_registers(ADDR, WORD, slave=self.ID)
read_holding_registers ==
    /\ pc = "call"
    /\ \E resp \in ReadResponses(rd.count) :
        /\ result' = resp
        /\ glitches' = IF resp.has_registers THEN glitches ELSE Count(glitches)
    /\ calls' = Count(calls)
    /\ pc' = "copy"
    /\ UNCHANGED <<op, alive, reg, read_success, rd, writes, ret>>

\* a copy loop that stops one word early
Copied_one_short(r, resp, WORD) ==
    [i \in 1..WORD |->
        IF resp.has_registers /\ i <= Len(resp.registers) /\ i < WORD
        THEN resp.registers[i] ELSE r[i]]

\* reg after `for i in range(WORD): reg[i] = result.registers[i]` has run as
\* far as it gets
Copied(r, resp, WORD) ==
    [i \in 1..WORD |->
        IF resp.has_registers /\ i <= Len(resp.registers)
        THEN resp.registers[i] ELSE r[i]]

\* the first subscript of the for loop that raises, or "ok"
CopyOutcome(resp, WORD) ==
    IF ~resp.has_registers THEN "AttributeError"
    ELSE IF Len(resp.registers) < WORD THEN "IndexError"
    ELSE "ok"

\* the try/except of one loop iteration
try_copy ==
    /\ pc = "copy"
    /\ reg' = Copied(reg, result, rd.count)
    /\ CASE CopyOutcome(result, rd.count) = "ok" ->
              /\ read_success' = TRUE
              /\ pc' = "returned"
              /\ ret' = ret
         [] CopyOutcome(result, rd.count) = "AttributeError" ->
              /\ read_success' = FALSE
              /\ pc' = "call"
              /\ ret' = ret
         [] CopyOutcome(result, rd.count) = "IndexError" ->
              /\ read_success' = FALSE
              /\ pc' = "raised"
              /\ ret' = [tag |-> "raise", exc |-> "IndexError"]
    /\ UNCHANGED <<op, alive, result, rd, calls, glitches, writes>>

\* the caller's code after modbus_fail_read_handler returned reg
Return(value) ==
    /\ pc' = "done"
    /\ ret' = value
    /\ UNCHANGED <<op, alive, result, reg, read_success, rd, calls, glitches, writes>>

get_mode_return ==
    /\ pc = "returned"
    /\ op.name = "get_mode"
    /\ Return([tag |-> "mode", mode |-> reg[1]])

\* rpm in units of 0.1 rpm: np.int16(registers[i]) / 10.0
get_rpm_return ==
    /\ pc = "returned"
    /\ op.name = "get_rpm"
    /\ Return(
           [tag |-> "rpm",
            L |-> [num |-> np_int16(reg[1]), den |-> 10],
            R |-> [num |-> np_int16(reg[2]), den |-> 10]])

\* metres in units of travel_in_one_rev: float(pulse) / self.cpr
get_wheels_travelled_return ==
    /\ pc = "returned"
    /\ op.name = "get_wheels_travelled"
    /\ Return(
           [tag |-> "travelled",
            L |-> [num |-> np_int32_words(reg[1], reg[2]), den |-> cpr],
            R |-> [num |-> np_int32_words(reg[3], reg[4]), den |-> cpr]])

get_wheels_tick_return ==
    /\ pc = "returned"
    /\ op.name = "get_wheels_tick"
    /\ Return(
           [tag |-> "tick",
            L |-> np_int32_words(reg[1], reg[2]),
            R |-> np_int32_words(reg[3], reg[4])])

\* the caller, having got its result or its exception, is free to call again
next_call ==
    /\ pc \in {"done", "raised"}
    /\ pc' = "idle"
    /\ op' = [name |-> "none", a |-> 0, b |-> 0]
    /\ alive' = TRUE
    /\ result' = Absent
    /\ reg' = <<>>
    /\ read_success' = FALSE
    /\ rd' = [addr |-> 0, count |-> 0]
    /\ calls' = 0
    /\ glitches' = 0
    /\ writes' = <<>>
    /\ ret' = NoRet

Next ==
    \/ next_call
    \/ set_mode
    \/ set_accel_time
    \/ set_decel_time
    \/ set_rpm
    \/ set_relative_angle
    \/ get_fault_code
    \/ get_mode
    \/ get_rpm
    \/ get_wheels_travelled
    \/ get_wheels_tick
    \/ read_holding_registers
    \/ try_copy
    \/ get_mode_return
    \/ get_rpm_return
    \/ get_wheels_travelled_return
    \/ get_wheels_tick_return

Spec == Init /\ [][Next]_vars

\* the interpreter keeps running the loop and the caller's code
FairSpec ==
    /\ Spec
    /\ WF_vars(read_holding_registers)
    /\ WF_vars(try_copy)
    /\ WF_vars(get_mode_return)
    /\ WF_vars(get_rpm_return)
    /\ WF_vars(get_wheels_travelled_return)
    /\ WF_vars(get_wheels_tick_return)

---------------------------------------------------------------------------
\* Properties

\* a response of the expected word count
WellFormed == result.has_registers /\ Len(result.registers) >= rd.count

\* the only write call of the finished method
TheWrite == writes[1]

Finished(name) == pc = "done" /\ op.name = name

\* C1: read-with-retry: a response without a register payload sends the loop
\* back to another read; when the first N reads were answered that way and
\* read N+1 is well-formed, the handler returns after exactly N+1 reads, and
\* what it returns is exactly the words of that response, in order, none of
\* them unset.
C1_ReadRetrySucceeds ==
    [][ /\ (pc = "copy" /\ ~result.has_registers) => pc' = "call"
        /\ (pc = "copy" /\ WellFormed) =>
              /\ pc' = "returned"
              /\ calls' = glitches' + 1
              /\ calls' = calls
              /\ Len(reg') = rd.count
              /\ \A i \in 1..rd.count :
                    reg'[i] = result.registers[i] /\ reg'[i] # None
      ]_vars

C1_Witness ==
    /\ pc = "returned"
    /\ op.name = "get_wheels_tick"
    /\ glitches = MaxGlitch
    /\ calls = MaxGlitch + 1
    /\ reg = <<0, 1000, 0, 65535>>

\* C2: against a device that never answers with a well-formed response, every
\* feedback read that was started eventually comes back to its caller (with a
\* result or an error).
C2_ReadTerminates == (pc = "call" /\ ~alive) ~> (pc \in {"done", "raised"})

\* C3: set_mode(MODE) with MODE outside {1,2,3} returns the error outcome 0
\* and calls the register client not at all; with MODE in {1,2,3} it issues
\* exactly one write_register of MODE to 0x200D and returns that write's result.
C3_SetMode ==
    Finished("set_mode") =>
        /\ calls = 0
        /\ IF op.a \in {1, 2, 3}
           THEN /\ Len(writes) = 1
                /\ TheWrite.fn = "write_register"
                /\ TheWrite.addr = 8205
                /\ TheWrite.values = <<op.a>>
                /\ ret.tag = "client"
                /\ ret.val = TheWrite.res
           ELSE /\ writes = <<>>
                /\ ret.tag = "const"
                /\ ret.val = 0

C3_Witness ==
    /\ Finished("set_mode")
    /\ op.a = 4
    /\ writes = <<>>
    /\ ret.val = 0

\* the word the claim expects for an rpm: the nearest clamp bound, two's
\* complement on 16 bits
ExpectedRpmWord(rpm) ==
    IF rpm >= 3000 THEN 3000
    ELSE IF rpm <= -3000 THEN 62536
    ELSE IF rpm >= 0 THEN rpm
    ELSE 65536 + rpm

\* C4: set_rpm(L, R) issues exactly one 2-register write to 0x2088 with
\* [clamp(L,-3000,3000) mod 2^16, clamp(R,-3000,3000) mod 2^16], never an
\* error; set_rpm(500, -500) writes [500, 65036].
C4_SetRpm ==
    Finished("set_rpm") =>
        /\ calls = 0
        /\ Len(writes) = 1
        /\ TheWrite.fn = "write_registers"
        /\ TheWrite.addr = 8328
        /\ TheWrite.values = <<ExpectedRpmWord(op.a), ExpectedRpmWord(op.b)>>
        /\ ret.tag = "client"
        /\ (op.a = 500 /\ op.b = -500) => TheWrite.values = <<500, 65036>>

C4_Witness ==
    /\ Finished("set_rpm")
    /\ op.a = 40000
    /\ op.b = -3001
    /\ TheWrite.values = <<3000, 62536>>

\* the eleven single-bit codes 0x0001 .. 0x0400
SingleBitCodes == { 2^k : k \in 0..10 }

\* C5: get_fault_code reads the two fault words in one 2-register read at
\* 0x20A5; an axis is flagged exactly when its word is one of the eleven
\* single-bit codes 0x0001..0x0400 (so 0 and any other nonzero word are not
\* flagged), and the code returned for an axis is the word read for it.
C5_FaultClassification ==
    Finished("get_fault_code") =>
        /\ calls = 1
        /\ rd = [addr |-> 8357, count |-> 2]
        /\ writes = <<>>
        /\ ret.tag = "fault"
        /\ ret.L.code = result.registers[1]
        /\ ret.R.code = result.registers[2]
        /\ ret.L.flag <=> (ret.L.code \in SingleBitCodes)
        /\ ret.R.flag <=> (ret.R.code \in SingleBitCodes)

C5_Witness ==
    /\ Finished("get_fault_code")
    /\ result.registers = <<3, 1024>>
    /\ ~ret.L.flag
    /\ ret.R.flag

\* the two words of the nearest bound for an angle outside [-1440, 1440]
NearestBoundWords(deg) == IF deg > 1440 THEN <<1, 0>> ELSE <<65535, 0>>

\* C6: for every angle outside [-1440, 1440] set_relative_angle writes, for
\* that axis, the two words of the nearest bound.
C6_DegreesClamped ==
    Finished("set_relative_angle") =>
        /\ (op.a < -1440 \/ op.a > 1440) =>
              SubSeq(TheWrite.values, 1, 2) = NearestBoundWords(op.a)
        /\ (op.b < -1440 \/ op.b > 1440) =>
              SubSeq(TheWrite.values, 3, 4) = NearestBoundWords(op.b)

InDegRange(deg) == -1440 <= deg /\ deg <= 1440

\* hi and lo are 16-bit words which the decoding of get_wheels_tick
\* reassembles to v
RoundTrips(hi, lo, v) ==
    /\ hi \in 0..65535
    /\ lo \in 0..65535
    /\ np_int32_words(hi, lo) = v

\* C7: set_relative_angle issues one 4-register write at 0x208A with the words
\* in the order left-hi, left-lo, right-hi, right-lo; for an angle in
\* [-1440, 1440] the two words of its axis are in 0..65535 and reassemble
\* (high word first, signed 32-bit) to the truncated linear map of the angle.
C7_SplitWordRoundTrip ==
    Finished("set_relative_angle") =>
        /\ calls = 0
        /\ Len(writes) = 1
        /\ TheWrite.fn = "write_registers"
        /\ TheWrite.addr = 8330
        /\ Len(TheWrite.values) = 4
        /\ InDegRange(op.a) =>
              RoundTrips(TheWrite.values[1], TheWrite.values[2],
                         int(map(op.a, -1440, 1440, -65536, 65536)))
        /\ InDegRange(op.b) =>
              RoundTrips(TheWrite.values[3], TheWrite.values[4],
                         int(map(op.b, -1440, 1440, -65536, 65536)))

C7_Witness ==
    /\ Finished("set_relative_angle")
    /\ op.a = -1
    /\ op.b = 720
    /\ TheWrite.values = <<65535, 65491, 0, 32768>>

\* the value the claim expects for a time: saturation to [0, 32767]
ExpectedMs(ms) == IF ms <= 0 THEN 0 ELSE IF ms >= 32767 THEN 32767 ELSE ms

\* C8: set_accel_time / set_decel_time issue exactly one 2-register write, to
\* 0x2080 / 0x2082, of [clamp(L,0,32767), clamp(R,0,32767)], each axis on its
\* own; -5 is written as 0, 40000 as 32767, 100 as 100.
C8_AccelDecelTime ==
    (Finished("set_accel_time") \/ Finished("set_decel_time")) =>
        /\ calls = 0
        /\ Len(writes) = 1
        /\ TheWrite.fn = "write_registers"
        /\ TheWrite.addr = (IF op.name = "set_accel_time" THEN 8320 ELSE 8322)
        /\ TheWrite.values = <<ExpectedMs(op.a), ExpectedMs(op.b)>>
        /\ ret.tag = "client"
        /\ op.a = -5 => TheWrite.values[1] = 0
        /\ op.a = 40000 => TheWrite.values[1] = 32767
        /\ op.b = 100 => TheWrite.values[2] = 100

C8_Witness ==
    /\ Finished("set_decel_time")
    /\ op.a = -5
    /\ op.b = 40000
    /\ TheWrite.addr = 8322
    /\ TheWrite.values = <<0, 32767>>

\* t is the signed 32-bit integer whose two's-complement halves are hi and lo
IsSigned32Of(t, hi, lo) ==
    /\ (t \div 65536) \in -32768..32767
    /\ (t \div 65536) % 65536 = hi
    /\ t % 65536 = lo

\* C9: get_wheels_tick, given the well-formed answer [lh, ll, rh, rl] to its
\* 4-register read at 0x20A7, returns left = signed32(lh:ll) and right =
\* signed32(rh:rl), high word first; get_wheels_travelled makes the same read
\* and converts the same ticks (over cpr = 16384); [0,1000,0,65535] gives the
\* ticks 1000 and 65535.
C9_WheelsTick ==
    (Finished("get_wheels_tick") \/ Finished("get_wheels_travelled")) =>
        LET w == result.registers
            l == IF op.name = "get_wheels_tick" THEN ret.L ELSE ret.L.num
            r == IF op.name = "get_wheels_tick" THEN ret.R ELSE ret.R.num
        IN  /\ rd = [addr |-> 8359, count |-> 4]
            /\ Len(w) = 4
            /\ IsSigned32Of(l, w[1], w[2])
            /\ IsSigned32Of(r, w[3], w[4])
            /\ op.name = "get_wheels_travelled" =>
                  ret.L.den = 16384 /\ ret.R.den = 16384
            /\ w = <<0, 1000, 0, 65535>> => (l = 1000 /\ r = 65535)

C9_Witness ==
    /\ Finished("get_wheels_tick")
    /\ result.registers = <<65535, 65535, 32768, 0>>
    /\ ret.L = -1
    /\ ret.R < -2147483647

\* C10: a response that carries registers, but fewer than requested, makes the
\* handler read again; it neither returns nor fails out to the caller.
C10_ShortResponseRetried ==
    [][ (pc = "copy" /\ result.has_registers /\ Len(result.registers) < rd.count)
            => pc' = "call" ]_vars

=============================================================================
